---- MODULE Spec2Model ----
(***************************************************************************)
(* REST API over the Product table: the route table of router.ts (each     *)
(* route a validation chain, handleInputErrors, then a handler), the six   *)
(* handlers of handlers/product.ts, and the products table they reach      *)
(* through the Sequelize model.  One action is one whole HTTP exchange.    *)
(*                                                                         *)
(* Strings are sequences of one-character strings, so that the validators  *)
(* (isInt, isNumeric, notEmpty, isBoolean) and the conversions (toString,  *)
(* JavaScript's ToNumber, the column casts of the table) are computed      *)
(* character by character.  The alphabet of the inputs is digits, the      *)
(* signs and letters; numbers are integers.                                *)
(***************************************************************************)
EXTENDS Integers, Sequences, FiniteSets, TLC

\* table, serial, dbUp: the products table, its id sequence, and whether the
\* store answers.  last: the exchange being answered.  prev, gone: what the
\* client remembers of the exchanges before it.  flight: the by-id handlers
\* that are between two of their awaits, and the instance each one holds.
VARIABLES table, serial, dbUp, last, prev, gone, flight

vars == <<table, serial, dbUp, last, prev, gone, flight>>

\* Ids the serial sequence hands out, and the ids a request may name.
MaxId == 2

Ids == 1..MaxId

\* Handlers that may be between their awaits at the same time.
MaxInFlight == 2

Slots == 1..MaxInFlight

-----------------------------------------------------------------------------
(* JSON values of a request body *)

Undef == [kind |-> "undefined", n |-> 0, s |-> <<>>, b |-> FALSE]

Num(n) == [kind |-> "number", n |-> n, s |-> <<>>, b |-> FALSE]

Str(s) == [kind |-> "string", n |-> 0, s |-> s, b |-> FALSE]

Bool(b) == [kind |-> "boolean", n |-> 0, s |-> <<>>, b |-> b]

DigitChars == <<"0", "1", "2", "3", "4", "5", "6", "7", "8", "9">>

IsDigit(c) == \E i \in 1..10 : DigitChars[i] = c

DigitVal(c) == (CHOOSE i \in 1..10 : DigitChars[i] = c) - 1

AllDigits(s) == \A i \in 1..Len(s) : IsDigit(s[i])

RECURSIVE NatToStr(_)
NatToStr(n) ==
    IF n < 10 THEN <<DigitChars[n + 1]>>
    ELSE Append(NatToStr(n \div 10), DigitChars[(n % 10) + 1])

IntToStr(n) == IF n < 0 THEN <<"-">> \o NatToStr(0 - n) ELSE NatToStr(n)

RECURSIVE DigitsToNat(_)
DigitsToNat(s) ==
    IF s = <<>> THEN 0
    ELSE 10 * DigitsToNat(SubSeq(s, 1, Len(s) - 1)) + DigitVal(s[Len(s)])

HasSign(s) == Len(s) > 0 /\ s[1] \in {"+", "-"}

Unsigned(s) == IF HasSign(s) THEN Tail(s) ELSE s

\* express-validator's toString, applied to a field before a standard validator.
ToStr(v) ==
    CASE v.kind = "undefined" -> <<>>
      [] v.kind = "number" -> IntToStr(v.n)
      [] v.kind = "boolean" -> IF v.b THEN <<"t", "r", "u", "e">> ELSE <<"f", "a", "l", "s", "e">>
      [] OTHER -> v.s

\* validator.js isInt: /^(?:[-+]?(?:0|[1-9][0-9]*))$/
isInt(s) ==
    LET u == Unsigned(s)
    IN  /\ Len(u) > 0
        /\ AllDigits(u)
        /\ (u[1] = "0" => Len(u) = 1)

\* validator.js isNumeric: /^[+-]?([0-9]*[.])?[0-9]+$/
isNumeric(s) ==
    LET u == Unsigned(s)
    IN  \/ Len(u) > 0 /\ AllDigits(u)
        \/ \E k \in 1..Len(u) :
              /\ u[k] = "."
              /\ AllDigits(SubSeq(u, 1, k - 1))
              /\ k < Len(u)
              /\ AllDigits(SubSeq(u, k + 1, Len(u)))

\* validator.js isEmpty: the string has length 0.
isEmpty(s) == Len(s) = 0

\* validator.js isBoolean (strict): one of 'true', 'false', '1', '0'.
isBoolean(s) == s \in {<<"t", "r", "u", "e">>, <<"f", "a", "l", "s", "e">>, <<"1">>, <<"0">>}

\* JavaScript ToNumber of a string of the alphabet: the empty string is 0, a
\* signed run of digits is its value, anything else is NaN.
StrToNum(s) ==
    IF s = <<>> THEN [nan |-> FALSE, n |-> 0]
    ELSE IF Len(Unsigned(s)) > 0 /\ AllDigits(Unsigned(s))
         THEN [nan |-> FALSE,
               n |-> IF s[1] = "-" THEN 0 - DigitsToNat(Unsigned(s))
                     ELSE DigitsToNat(Unsigned(s))]
         ELSE [nan |-> TRUE, n |-> 0]

\* The custom rule of the price chains: value => value > 0, on the raw value.
GreaterThanZero(v) ==
    CASE v.kind = "number" -> v.n > 0
      [] v.kind = "string" -> ~StrToNum(v.s).nan /\ StrToNum(v.s).n > 0
      [] v.kind = "boolean" -> v.b
      [] OTHER -> FALSE

-----------------------------------------------------------------------------
(* The validation chains of the route table and handleInputErrors *)

Err(path, msg) == [path |-> path, msg |-> msg]

Check(ok, path, msg) == IF ok THEN <<>> ELSE <<Err(path, msg)>>

\* param('id').isInt().withMessage('Invalid ID')
IdChain(pid) == Check(isInt(pid), "id", "Invalid ID")

\* body('name').notEmpty()
NameChain(body) ==
    Check(~isEmpty(ToStr(body.name)), "name", "Product name must be provided")

\* The price chain stopping at its first failure.
PriceChain_Bail(body) ==
    IF ~isNumeric(ToStr(body.price))
    THEN <<Err("price", "Price must be a number")>>
    ELSE IF ~GreaterThanZero(body.price)
    THEN <<Err("price", "Price must be a positive number")>>
    ELSE Check(~isEmpty(ToStr(body.price)), "price", "Product price must be provided")

\* The price chain without its custom rule.
PriceChain_NoCustom(body) ==
    Check(isNumeric(ToStr(body.price)), "price", "Price must be a number")
    \o Check(~isEmpty(ToStr(body.price)), "price", "Product price must be provided")

\* body('price').isNumeric().custom(value => value > 0).notEmpty(): every
\* validator of the chain runs, each failure is one error, in chain order.
PriceChain(body) ==
    Check(isNumeric(ToStr(body.price)), "price", "Price must be a number")
    \o Check(GreaterThanZero(body.price), "price", "Price must be a positive number")
    \o Check(~isEmpty(ToStr(body.price)), "price", "Product price must be provided")

\* body('availability').isBoolean()
AvailabilityChain(body) ==
    Check(isBoolean(ToStr(body.availability)), "availability", "Availability must be boolean")

GetByIdValidation(pid, body) == IdChain(pid)

PostValidation(pid, body) == NameChain(body) \o PriceChain(body)

\* The PUT route without its id rule.
PutValidation_NoId(pid, body) ==
    NameChain(body) \o PriceChain(body) \o AvailabilityChain(body)

PutValidation(pid, body) ==
    IdChain(pid) \o NameChain(body) \o PriceChain(body) \o AvailabilityChain(body)

PatchValidation(pid, body) == IdChain(pid)

DeleteValidation(pid, body) == IdChain(pid)

-----------------------------------------------------------------------------
(* The products table and the Sequelize model over it *)

NoRow == [id |-> 0, name |-> <<>>, price |-> 0, availability |-> FALSE]

TableIds(t) == {r.id : r \in t}

\* The casts of the columns: a number column and a boolean column.
CastNumber(v) == IF v.kind = "number" THEN v.n ELSE StrToNum(ToStr(v)).n

CastBool(v) ==
    CASE v.kind = "boolean" -> v.b
      [] v.kind = "number" -> v.n = 1
      [] OTHER -> v.s \in {<<"t", "r", "u", "e">>, <<"1">>}

\* A primary key given as text is cast to the integer column.
CastId(pid) == StrToNum(pid).n

\* Product.findByPk(id): SELECT ... WHERE id = id.
findByPk(t, pid) ==
    IF \E r \in t : r.id = CastId(pid)
    THEN CHOOSE r \in t : r.id = CastId(pid)
    ELSE NoRow

\* Product.findAll({order: [['id', 'DESC']]})
RECURSIVE findAllDesc(_)
findAllDesc(t) ==
    IF t = {} THEN <<>>
    ELSE LET m == CHOOSE r \in t : \A q \in t : q.id <= r.id
         IN  <<m>> \o findAllDesc(t \ {m})

\* The availability column's default.
DefaultAvailability == TRUE

\* Product.build(body): the attributes the body carries; availability defaults
\* to true; an id the body carries is kept, otherwise the serial assigns it.
BuildRow(body, next) ==
    [id |-> IF body.id.kind = "undefined" THEN next ELSE CastNumber(body.id),
     name |-> ToStr(body.name),
     price |-> CastNumber(body.price),
     availability |-> IF body.availability.kind = "undefined" THEN DefaultAvailability
                      ELSE CastBool(body.availability)]

\* INSERT: the primary key rejects a row whose id is taken.
InsertOk(t, row) == row.id \notin TableIds(t)

\* instance.set(body): the mutable attributes the body carries overwrite the
\* instance's; the primary key, once defined, is never overwritten.
SetRow(row, body) ==
    [id |-> row.id,
     name |-> IF body.name.kind = "undefined" THEN row.name ELSE ToStr(body.name),
     price |-> IF body.price.kind = "undefined" THEN row.price ELSE CastNumber(body.price),
     availability |-> IF body.availability.kind = "undefined" THEN row.availability
                      ELSE CastBool(body.availability)]

\* The attributes set() marks changed: those whose raw value differs from the
\* instance's value.
Changed(row, body) ==
    {f \in {"name", "price", "availability"} :
        CASE f = "name" -> body.name.kind # "undefined" /\ body.name # Str(row.name)
          [] f = "price" -> body.price.kind # "undefined" /\ body.price # Num(row.price)
          [] OTHER -> body.availability.kind # "undefined"
                      /\ body.availability # Bool(row.availability)}

\* UPDATE ... WHERE id = row.id: rewrites the stored row of that id, if any.
UpdateWhereId(t, row) ==
    {IF r.id = row.id THEN row ELSE r : r \in t}

\* DELETE ... WHERE id = row.id
DeleteWhereId(t, row) == {r \in t : r.id # row.id}

-----------------------------------------------------------------------------
(* What a handler leaves behind: the response it sent and its store calls *)

NoOut ==
    [status |-> 0, shape |-> "none", errors |-> <<>>, error |-> "",
     data |-> NoRow, list |-> <<>>, text |-> "",
     found |-> NoRow, reads |-> 0, writes |-> 0, rejected |-> FALSE]

\* res.status(status).json({data: row})
JsonData(status, row) == [NoOut EXCEPT !.status = status, !.shape = "data", !.data = row]

\* res.status(404).json({error: 'Product not found'})
NotFound == [NoOut EXCEPT !.status = 404, !.shape = "error", !.error = "Product not found"]

\* An awaited store call threw: the handler's promise rejects before any res call.
Rejected == [NoOut EXCEPT !.rejected = TRUE]

Result(t, s, out) == [table |-> t, serial |-> s, out |-> out]

\* instance.save(): one UPDATE when an attribute is marked changed, none otherwise.
Save(t, row, changed) ==
    [table |-> IF changed = {} THEN t ELSE UpdateWhereId(t, row),
     writes |-> IF changed = {} THEN 0 ELSE 1]

-----------------------------------------------------------------------------
(* The handlers *)

getProducts(pid, body) ==
    IF ~dbUp THEN Result(table, serial, [Rejected EXCEPT !.reads = 1])
    ELSE Result(table, serial,
                [NoOut EXCEPT !.status = 200, !.shape = "data",
                              !.list = findAllDesc(table), !.reads = 1])

getProductById(pid, body) ==
    LET product == findByPk(table, pid)
    IN  IF ~dbUp THEN Result(table, serial, [Rejected EXCEPT !.reads = 1])
        ELSE IF product = NoRow
        THEN Result(table, serial, [NotFound EXCEPT !.reads = 1])
        ELSE Result(table, serial,
                    [JsonData(200, product) EXCEPT !.found = product, !.reads = 1])

createProduct(pid, body) ==
    LET product == BuildRow(body, serial)
        drawn == IF body.id.kind = "undefined" THEN serial + 1 ELSE serial
    IN  IF ~dbUp THEN Result(table, serial, [Rejected EXCEPT !.writes = 1])
        ELSE IF ~InsertOk(table, product)
        THEN Result(table, drawn, [Rejected EXCEPT !.writes = 1])
        ELSE Result(table \cup {product}, drawn,
                    [JsonData(201, product) EXCEPT !.writes = 1])

\* updateProduct overwriting name and price only.
updateProduct_NoAvailability(pid, body) ==
    LET product == findByPk(table, pid)
        partial == [body EXCEPT !.availability = Undef]
        updated == SetRow(product, partial)
        first == Save(table, updated, Changed(product, partial))
        second == Save(first.table, updated, {})
    IN  IF ~dbUp THEN Result(table, serial, [Rejected EXCEPT !.reads = 1])
        ELSE IF product = NoRow
        THEN Result(table, serial, [NotFound EXCEPT !.reads = 1])
        ELSE Result(second.table, serial,
                    [JsonData(200, updated) EXCEPT !.found = product, !.reads = 1,
                                                   !.writes = first.writes + second.writes])

\* updateProduct assigning the fields itself, then update() and save(): the
\* save still finds them changed.
updateProduct_SavesTwice(pid, body) ==
    LET product == findByPk(table, pid)
        updated == SetRow(product, body)
        first == Save(table, updated, Changed(product, body))
        second == Save(first.table, updated, Changed(product, body))
    IN  IF ~dbUp THEN Result(table, serial, [Rejected EXCEPT !.reads = 1])
        ELSE IF product = NoRow
        THEN Result(table, serial, [NotFound EXCEPT !.reads = 1])
        ELSE Result(second.table, serial,
                    [JsonData(200, updated) EXCEPT !.found = product, !.reads = 1,
                                                   !.writes = first.writes + second.writes])

updateProduct(pid, body) ==
    LET product == findByPk(table, pid)
        updated == SetRow(product, body)
        \* await product.update(req.body): set, then save
        first == Save(table, updated, Changed(product, body))
        \* await product.save(): nothing is marked changed any more
        second == Save(first.table, updated, {})
    IN  IF ~dbUp THEN Result(table, serial, [Rejected EXCEPT !.reads = 1])
        ELSE IF product = NoRow
        THEN Result(table, serial, [NotFound EXCEPT !.reads = 1])
        ELSE Result(second.table, serial,
                    [JsonData(200, updated) EXCEPT !.found = product, !.reads = 1,
                                                   !.writes = first.writes + second.writes])

\* updateAvailabilty answering the toggled record without saving it.
updateAvailabilty_NoSave(pid, body) ==
    LET product == findByPk(table, pid)
        toggled == [product EXCEPT !.availability = ~product.availability]
    IN  IF ~dbUp THEN Result(table, serial, [Rejected EXCEPT !.reads = 1])
        ELSE IF product = NoRow
        THEN Result(table, serial, [NotFound EXCEPT !.reads = 1])
        ELSE Result(table, serial,
                    [JsonData(200, toggled) EXCEPT !.found = product, !.reads = 1])

\* updateAvailabilty without its not-found branch.
updateAvailabilty_NoCheck(pid, body) ==
    LET product == findByPk(table, pid)
        toggled == [product EXCEPT !.availability = ~product.availability]
        saved == Save(table, toggled, {"availability"})
    IN  IF ~dbUp THEN Result(table, serial, [Rejected EXCEPT !.reads = 1])
        ELSE Result(saved.table, serial,
                    [JsonData(200, toggled) EXCEPT !.found = product, !.reads = 1,
                                                   !.writes = saved.writes])

updateAvailabilty(pid, body) ==
    LET product == findByPk(table, pid)
        \* product.availability = !product.dataValues.availability
        toggled == [product EXCEPT !.availability = ~product.availability]
        saved == Save(table, toggled, {"availability"})
    IN  IF ~dbUp THEN Result(table, serial, [Rejected EXCEPT !.reads = 1])
        ELSE IF product = NoRow
        THEN Result(table, serial, [NotFound EXCEPT !.reads = 1])
        ELSE Result(saved.table, serial,
                    [JsonData(200, toggled) EXCEPT !.found = product, !.reads = 1,
                                                   !.writes = saved.writes])

\* deleteProduct answering without destroying the record.
deleteProduct_NoDestroy(pid, body) ==
    LET product == findByPk(table, pid)
    IN  IF ~dbUp THEN Result(table, serial, [Rejected EXCEPT !.reads = 1])
        ELSE IF product = NoRow
        THEN Result(table, serial, [NotFound EXCEPT !.reads = 1])
        ELSE Result(table, serial,
                    [NoOut EXCEPT !.status = 200, !.shape = "data",
                                  !.text = "Product was deleted",
                                  !.found = product, !.reads = 1])

deleteProduct(pid, body) ==
    LET product == findByPk(table, pid)
    IN  IF ~dbUp THEN Result(table, serial, [Rejected EXCEPT !.reads = 1])
        ELSE IF product = NoRow
        THEN Result(table, serial, [NotFound EXCEPT !.reads = 1])
        ELSE Result(DeleteWhereId(table, product), serial,
                    [NoOut EXCEPT !.status = 200, !.shape = "data",
                                  !.text = "Product was deleted",
                                  !.found = product, !.reads = 1, !.writes = 1])

-----------------------------------------------------------------------------
(* One HTTP exchange: validation chain, handleInputErrors, handler *)

EmptyBody == [name |-> Undef, price |-> Undef, availability |-> Undef, id |-> Undef]

Exchange(method, pid, body, out, handled) ==
    [method |-> method, pid |-> pid, body |-> body, handled |-> handled,
     status |-> out.status, shape |-> out.shape, errors |-> out.errors,
     error |-> out.error, data |-> out.data, list |-> out.list, text |-> out.text,
     found |-> out.found, reads |-> out.reads, writes |-> out.writes,
     rejected |-> out.rejected]

NoExchange == Exchange("none", <<>>, EmptyBody, NoOut, FALSE)

\* handleInputErrors: a non-empty validation result is answered 400 {errors}
\* and the handler is not called.
handleInputErrors(errors) ==
    [NoOut EXCEPT !.status = 400, !.shape = "errors", !.errors = errors]

\* What the client sees of a handler whose promise rejected: nothing (the
\* rejection is never passed on), or the framework's 500 page.
UnhandledStatuses == {0, 500}

\* The client sends its requests one after the other.
Idle == last = NoExchange

\* A route: the validation chain's errors, handleInputErrors, then the handler
\* (h is what the handler does in the current state).
Route(method, pid, body, errors, h) ==
    /\ IF errors # <<>>
       THEN /\ last' = Exchange(method, pid, body, handleInputErrors(errors), FALSE)
            /\ UNCHANGED <<table, serial>>
       ELSE /\ table' = h.table
            /\ serial' = h.serial
            /\ \E u \in UnhandledStatuses :
                  last' = Exchange(method, pid, body,
                                   IF h.out.rejected THEN [h.out EXCEPT !.status = u]
                                   ELSE h.out,
                                   TRUE)
    /\ UNCHANGED <<dbUp, prev, gone, flight>>

-----------------------------------------------------------------------------
(* The requests a client sends *)

PathIds == {IntToStr(i) : i \in Ids} \cup {<<"+", "1">>, <<"x">>}

BodyIds == {Undef} \cup {Num(i) : i \in Ids}

\* The products the client sends with the documented types.
Catalogue ==
    {[name |-> Str(<<"a">>), price |-> Num(1)], [name |-> Str(<<"b">>), price |-> Num(2)]}

\* Bodies of the documented shape.
PlainBodies ==
    {[name |-> c.name, price |-> c.price, availability |-> av, id |-> Undef] :
        c \in Catalogue, av \in {Undef, Bool(TRUE), Bool(FALSE)}}

\* Bodies that carry an id of the client's choosing as well.
IdBodies ==
    {[name |-> Str(<<"a">>), price |-> Num(1), availability |-> Bool(FALSE), id |-> Num(i)] :
        i \in Ids}

\* Bodies with fields missing, of another type, or out of range.
OddBodies ==
    [name : {Undef, Str(<<>>), Str(<<"a">>)},
     price : {Undef, Num(0 - 1), Num(0), Str(<<"2">>), Str(<<"H", "i">>)},
     availability : {Undef, Bool(TRUE), Str(<<"n", "o">>)},
     id : {Undef}]

Bodies == PlainBodies \cup IdBodies \cup OddBodies

\* router.get('/', getProducts)
GetList ==
    /\ Idle
    /\ Route("GET", <<>>, EmptyBody, <<>>, getProducts(<<>>, EmptyBody))

\* router.get('/:id', ...)
GetOne ==
    /\ Idle
    /\ \E pid \in PathIds :
            Route("GET", pid, EmptyBody, GetByIdValidation(pid, EmptyBody),
                  getProductById(pid, EmptyBody))

\* router.post('/', ...)
Post ==
    /\ Idle
    /\ \E body \in Bodies :
            /\ (PostValidation(<<>>, body) = <<>> /\ body.id.kind = "undefined")
                  => serial <= MaxId
            /\ Route("POST", <<>>, body, PostValidation(<<>>, body),
                     createProduct(<<>>, body))

\* router.put('/:id', ...)
Put ==
    /\ Idle
    /\ \E pid \in PathIds, body \in Bodies :
            Route("PUT", pid, body, PutValidation(pid, body), updateProduct(pid, body))

\* router.patch('/:id', ...): the body is not validated and not read.
Patch ==
    /\ Idle
    /\ \E pid \in PathIds, body \in {EmptyBody, [EmptyBody EXCEPT !.id = Num(1)]} :
            Route("PATCH", pid, body, PatchValidation(pid, body),
                  updateAvailabilty(pid, body))

\* router.delete('/:id', ...)
Delete ==
    /\ Idle
    /\ \E pid \in PathIds :
            Route("DELETE", pid, EmptyBody, DeleteValidation(pid, EmptyBody),
                  deleteProduct(pid, EmptyBody))

-----------------------------------------------------------------------------
(* The client's memory of the exchanges, kept to state the sequence claims *)

NoPrev == [method |-> "none", id |-> 0, row |-> NoRow]

\* A body whose fields have the JSON types of the documented schema.
Typed(body) ==
    /\ body.name.kind = "string"
    /\ body.price.kind = "number"
    /\ body.availability.kind = "boolean"

\* The three values a typed body sends, as they stand in the body.
Sent(id, body) ==
    [id |-> id, name |-> body.name.s, price |-> body.price.n,
     availability |-> body.availability.b]

\* After a PUT answered 200 with a typed body: the values sent.  After a PATCH
\* answered 200: the record as it was before.  Any other request on the
\* remembered id ends the memory; requests elsewhere leave it.
Summary(ex) ==
    CASE ex.method = "PUT" /\ ex.status = 200 /\ Typed(ex.body) ->
            [method |-> "PUT", id |-> ex.found.id, row |-> Sent(ex.found.id, ex.body)]
      [] ex.method = "PATCH" /\ ex.status = 200 ->
            [method |-> "PATCH", id |-> ex.found.id, row |-> ex.found]
      [] ex.pid # <<>> /\ CastId(ex.pid) = prev.id -> NoPrev
      [] OTHER -> prev

\* Ids deleted with a 200 since the last successful create.
GoneAfter(ex) ==
    CASE ex.method = "DELETE" /\ ex.status = 200 -> gone \cup {ex.found.id}
      [] ex.method = "POST" /\ ex.status = 201 -> {}
      [] OTHER -> gone

\* The response has been sent: the exchange is over.
Finish ==
    /\ last # NoExchange
    /\ last' = NoExchange
    /\ prev' = Summary(last)
    /\ gone' = GoneAfter(last)
    /\ UNCHANGED <<table, serial, dbUp, flight>>

\* The store becomes unreachable, or reachable again.
Outage ==
    /\ dbUp' = ~dbUp
    /\ UNCHANGED <<table, serial, last, prev, gone, flight>>

-----------------------------------------------------------------------------
(* The by-id handlers that write, step by step: each await is a point where *)
(* the other requests' steps may run                                        *)

NoFlight == [method |-> "none", pc |-> "free", product |-> NoRow]

\* No handler is between two awaits.
Quiet == \A r \in Slots : flight[r] = NoFlight

\* UPDATE ... SET <the changed columns> WHERE id = row.id: the statement save()
\* issues for an instance read earlier.  It names the changed columns only
\* and touches the stored row of that id, if there still is one.
UpdateColumns(t, row, changed) ==
    {IF r.id = row.id
     THEN [id |-> r.id,
           name |-> IF "name" \in changed THEN row.name ELSE r.name,
           price |-> IF "price" \in changed THEN row.price ELSE r.price,
           availability |-> IF "availability" \in changed THEN row.availability
                            ELSE r.availability]
     ELSE r : r \in t}

\* updateProduct after its lookup: product.update(req.body), product.save().
updateProductWrite(t, product, body) ==
    IF Changed(product, body) = {} THEN t
    ELSE UpdateColumns(t, SetRow(product, body), Changed(product, body))

\* The same step, were the instance written with an upsert.
updateAvailabiltyWrite_Upsert(t, product) ==
    {r \in t : r.id # product.id}
        \cup {[product EXCEPT !.availability = ~product.availability]}

\* updateAvailabilty after its lookup: the flag is flipped on the instance
\* held, then product.save().
updateAvailabiltyWrite(t, product) ==
    UpdateColumns(t, [product EXCEPT !.availability = ~product.availability],
                  {"availability"})

\* deleteProduct after its lookup: product.destroy().
deleteProductWrite(t, product) == DeleteWhereId(t, product)

\* await Product.findByPk(id) of a PUT, PATCH or DELETE whose validation chain
\* passed and whose record exists: the handler goes on, holding the instance.
\* (A request answered 400 or 404 makes no further store call.)
Lookup(r) ==
    /\ Idle
    /\ flight[r] = NoFlight
    /\ \E method \in {"PUT", "PATCH", "DELETE"}, pid \in PathIds :
            /\ IdChain(pid) = <<>>
            /\ findByPk(table, pid) # NoRow
            /\ flight' = [flight EXCEPT ![r] = [method |-> method, pc |-> "found",
                                                 product |-> findByPk(table, pid)]]
    /\ UNCHANGED <<table, serial, dbUp, last, prev, gone>>

\* The awaited write of a handler that holds an instance.  req.body, validated
\* by the route before the handler ran, is read here for the first time.
Write(r) ==
    /\ Idle
    /\ flight[r].pc = "found"
    /\ LET product == flight[r].product
       IN  CASE flight[r].method = "PUT" ->
                    /\ \E body \in Bodies :
                          /\ PutValidation(IntToStr(product.id), body) = <<>>
                          /\ table' = updateProductWrite(table, product, body)
                    /\ gone' = gone
             [] flight[r].method = "PATCH" ->
                    /\ table' = updateAvailabiltyWrite(table, product)
                    /\ gone' = gone
             [] OTHER ->
                    /\ table' = deleteProductWrite(table, product)
                    /\ gone' = gone \cup {product.id}
    /\ flight' = [flight EXCEPT ![r].pc = "written"]
    /\ UNCHANGED <<serial, dbUp, last, prev>>

\* res.json(...) after the write: the handler is over.
Respond(r) ==
    /\ Idle
    /\ flight[r].pc = "written"
    /\ flight' = [flight EXCEPT ![r] = NoFlight]
    /\ UNCHANGED <<table, serial, dbUp, last, prev, gone>>

\* A create, run while no by-id handler is between its awaits.
PostQuiet == Quiet /\ Post

Init ==
    /\ flight = [r \in Slots |-> NoFlight]
    /\ table = {}
    /\ serial = 1
    /\ dbUp = TRUE
    /\ last = NoExchange
    /\ prev = NoPrev
    /\ gone = {}

Next == GetList \/ GetOne \/ Post \/ Put \/ Patch \/ Delete \/ Finish

Spec == Init /\ [][Next]_vars

NextOutage == Next \/ Outage

SpecOutage == Init /\ [][NextOutage]_vars

NextConcurrent ==
    \/ PostQuiet
    \/ Finish
    \/ \E r \in Slots : Lookup(r)
    \/ \E r \in Slots : Write(r)
    \/ \E r \in Slots : Respond(r)

SpecConcurrent == Init /\ [][NextConcurrent]_vars

-----------------------------------------------------------------------------
(* The vocabulary of the claims, stated on values and not on the validators *)

\* The texts that denote the integer i.
TextForms(i) ==
    {IntToStr(i)} \cup (IF i >= 0 THEN {<<"+">> \o NatToStr(i)} ELSE {})

IntRange == (0 - (MaxId + 1))..(MaxId + 1)

IsIntegerText(s) == \E i \in IntRange : s \in TextForms(i)

IntOfText(s) == CHOOSE i \in IntRange : s \in TextForms(i)

\* The path id names a stored record of table t.
Exists(t, pid) == IsIntegerText(pid) /\ IntOfText(pid) \in TableIds(t)

RowOf(t, pid) == CHOOSE r \in t : r.id = IntOfText(pid)

ById == {"GET1", "PUT", "PATCH", "DELETE"}

Kind(ex) == IF ex.method = "GET" /\ ex.pid # <<>> THEN "GET1" ELSE ex.method

NumberValue(v) ==
    \/ v.kind = "number"
    \/ v.kind = "string" /\ IsIntegerText(v.s)

PositiveValue(v) ==
    \/ v.kind = "number" /\ v.n > 0
    \/ v.kind = "string" /\ IsIntegerText(v.s) /\ IntOfText(v.s) > 0
    \/ v.kind = "boolean" /\ v.b

EmptyValue(v) == v.kind = "undefined" \/ (v.kind = "string" /\ v.s = <<>>)

BooleanValue(v) ==
    \/ v.kind = "boolean"
    \/ v.kind = "number" /\ v.n \in {0, 1}
    \/ v.kind = "string" /\ v.s \in {<<"1">>, <<"0">>, <<"t", "r", "u", "e">>,
                                     <<"f", "a", "l", "s", "e">>}

\* The rules of an exchange's route that its request violates.
Violated(ex) ==
    {rule \in {"id", "name", "numeric", "positive", "price", "boolean"} :
        CASE rule = "id" -> Kind(ex) \in ById /\ ~IsIntegerText(ex.pid)
          [] rule = "name" -> ex.method \in {"POST", "PUT"} /\ EmptyValue(ex.body.name)
          [] rule = "numeric" -> ex.method \in {"POST", "PUT"} /\ ~NumberValue(ex.body.price)
          [] rule = "positive" -> ex.method \in {"POST", "PUT"} /\ ~PositiveValue(ex.body.price)
          [] rule = "price" -> ex.method \in {"POST", "PUT"} /\ EmptyValue(ex.body.price)
          [] OTHER -> ex.method = "PUT" /\ ~BooleanValue(ex.body.availability)}

IsNotFound(ex) ==
    ex.status = 404 /\ ex.shape = "error" /\ ex.error = "Product not found"

\* A step that is one whole exchange.
IsExchange == last = NoExchange /\ last' # NoExchange

-----------------------------------------------------------------------------
(* Claims *)

\* C1: a DELETE answered 200 has removed the record, and while no create
\* intervenes every later GET or DELETE on that id is answered 404 "Product
\* not found".
C1_DeleteIsFinal ==
    /\ (last.method = "DELETE" /\ last.status = 200)
          => IntOfText(last.pid) \notin TableIds(table)
    /\ (Kind(last) \in {"GET1", "DELETE"} /\ IsIntegerText(last.pid)
        /\ IntOfText(last.pid) \in gone)
          => IsNotFound(last)

C1_Witness ==
    /\ last.method = "DELETE"
    /\ IsIntegerText(last.pid)
    /\ IntOfText(last.pid) \in gone
    /\ last.status = 404

\* What C2 asks of one exchange.
C2_Step ==
    (IsExchange /\ last'.method = "PATCH" /\ Exists(table, last'.pid))
       => LET before == RowOf(table, last'.pid)
              after == RowOf(table', last'.pid)
          IN  /\ last'.status = 200
              /\ last'.shape = "data"
              /\ last'.data.availability = ~before.availability
              /\ Exists(table', last'.pid)
              /\ after = [before EXCEPT !.availability = ~before.availability]
              /\ table' \ {after} = table \ {before}
              /\ (prev.method = "PATCH" /\ prev.id = before.id)
                    => last'.data.availability = prev.row.availability

\* C2: a PATCH on an existing record is answered 200 with availability the
\* negation of the stored value, stores that negation and nothing else, and a
\* second PATCH, with no request on that id since the first, answers the
\* original value.
C2_PatchTwice == [][C2_Step]_vars

C2_Witness ==
    /\ last.method = "PATCH"
    /\ last.status = 200
    /\ prev.method = "PATCH"
    /\ prev.id = last.data.id
    /\ last.data.availability = prev.row.availability

\* What C3 asks of one exchange.
C3_Step ==
    /\ (IsExchange /\ last'.method = "PUT" /\ Exists(table, last'.pid)
        /\ Typed(last'.body) /\ Violated(last') = {})
          => last'.status = 200 /\ last'.shape = "data"
    /\ (IsExchange /\ Kind(last') = "GET1" /\ prev.method = "PUT"
        /\ IsIntegerText(last'.pid) /\ IntOfText(last'.pid) = prev.id)
          => /\ last'.status = 200
             /\ last'.shape = "data"
             /\ last'.data = prev.row

C4_Step ==
    (IsExchange /\ Violated(last') # {})
       => /\ last'.status = 400
          /\ last'.shape = "errors"
          /\ last'.errors # <<>>
          /\ ~last'.handled
          /\ last'.reads = 0 /\ last'.writes = 0
          /\ table' = table
          /\ serial' = serial
          /\ "id" \in Violated(last')
                => \E k \in 1..Len(last'.errors) : last'.errors[k].msg = "Invalid ID"

\* C4: a request that violates a rule of its route is answered 400 {errors},
\* its handler is not called and the store stays as it was; a path id that is
\* no integer is answered 400 "Invalid ID", never 404.
C4_RejectedUntouched == [][C4_Step]_vars

C4_Witness ==
    /\ last.method = "PUT"
    /\ last.pid = <<"x">>
    /\ last.status = 400
    /\ table # {}

\* C5: the errors of a 400 are one per violated rule: POST with an empty body
\* gives 4, price 0 gives 1, a price that is no number gives 2, PUT with a
\* valid id and an empty body gives 5.
C5_EveryFailureReported ==
    /\ last.method \in {"POST", "PUT"}
          => Len(last.errors) = Cardinality(Violated(last))
    /\ (last.method = "POST" /\ last.body = EmptyBody) => Len(last.errors) = 4
    /\ (last.method = "POST" /\ last.body.name = Str(<<"a">>) /\ last.body.price = Num(0))
          => Len(last.errors) = 1
    /\ (last.method = "POST" /\ last.body.name = Str(<<"a">>)
        /\ last.body.price = Str(<<"H", "i">>))
          => Len(last.errors) = 2
    /\ (last.method = "PUT" /\ IsIntegerText(last.pid) /\ last.body = EmptyBody)
          => Len(last.errors) = 5

C5_Witness ==
    /\ last.method = "PUT"
    /\ last.body = EmptyBody
    /\ Len(last.errors) = 5

\* What C6 asks of one exchange.
C6_Step ==
    (IsExchange /\ Kind(last') \in ById /\ IsIntegerText(last'.pid)
     /\ ~Exists(table, last'.pid) /\ Violated(last') = {})
       => /\ IsNotFound(last')
          /\ last'.data = NoRow /\ last'.list = <<>> /\ last'.text = ""
          /\ table' = table
          /\ serial' = serial

\* C6: GET, PUT with a valid body, PATCH and DELETE on an integer id that
\* matches no record are answered 404 {error: "Product not found"}, with no
\* data, and leave the store as it was.
C6_NotFound == [][C6_Step]_vars

C6_Witness ==
    /\ last.method = "PATCH"
    /\ last.status = 404
    /\ table # {}

\* What C7 asks of one exchange.
C7_Step ==
    /\ (IsExchange /\ last'.method = "POST" /\ last'.status = 201)
          => /\ last'.data.id \notin TableIds(table)
             /\ last'.data.id = serial
             /\ table' = table \cup {last'.data}
    /\ (IsExchange /\ last'.method \in {"PUT", "PATCH"})
          => TableIds(table') = TableIds(table)

\* C7: no two stored records share an id; a create answered 201 carries an id
\* assigned by the store's sequence, different from every id already stored;
\* no PUT or PATCH changes the id of a record.
C7_IdIdentifies ==
    /\ [](\A r \in table : \A q \in table : r.id = q.id => r = q)
    /\ [][C7_Step]_vars

\* What C8 asks of one exchange.
C8_Step ==
    (IsExchange /\ last'.method \in {"PATCH", "DELETE"})
       => \A r \in table' : \E q \in table : q.id = r.id /\ q.price = r.price

\* C8: every stored record has price > 0, and PATCH and DELETE alter no price.
C8_PricePositive ==
    /\ [](\A r \in table : r.price > 0)
    /\ [][C8_Step]_vars

C8_Witness ==
    /\ last.method = "PUT"
    /\ last.status = 200
    /\ last.body.price = Str(<<"2">>)
    /\ last.found.price = 1

C10_AlwaysAnswered ==
    last.handled
       => \/ last.status \in {200, 201} /\ last.shape = "data"
          \/ last.status = 400 /\ last.shape = "errors"
          \/ last.status = 404 /\ last.shape = "error"

\* What C11 asks of one step: an id a DELETE has removed comes back into the
\* table by a create only.
C11_Step ==
    \A i \in gone :
        (i \notin TableIds(table) /\ i \in TableIds(table')) => last'.method = "POST"

\* C11: once a DELETE has removed the record of an id, no write of a PUT or
\* PATCH on that id whose lookup came before the delete makes a record with
\* that id reappear in the table, whatever the interleaving.
C11_DeleteIsPermanent == [][C11_Step]_vars

\* A PATCH that found the record has written after a DELETE removed it, and
\* the id is still absent.
C11_Witness ==
    \E r \in Slots :
        /\ flight[r].method = "PATCH"
        /\ flight[r].pc = "written"
        /\ flight[r].product.id \in gone
        /\ flight[r].product.id \notin TableIds(table)

====
